---- MODULE Spec2Model ----
(***************************************************************************)
(* A model of crm/schema.py: the GraphQL mutation handlers CreateCustomer,  *)
(* BulkCreateCustomers, CreateProduct and CreateOrder and the query         *)
(* resolvers, over an entity store of customers, products and orders.       *)
(*                                                                          *)
(* The specifications of the module:                                        *)
(*   Spec      - one request at a time, each handler one atomic action;     *)
(*   SpecCustomers, SpecOrders - Spec restricted to the customer handlers,  *)
(*               and to the handlers an order depends on;                   *)
(*   SpecConc  - two request contexts whose store accesses interleave;      *)
(*   SpecPhone - the pure function validate_phone over bounded strings.     *)
(*                                                                          *)
(* Strings that the code inspects character by character (phones, GraphQL   *)
(* ID values) are sequences of one-character strings. Money is an integer   *)
(* number of cents: Decimal arithmetic on two-place decimals is exact.      *)
(***************************************************************************)
EXTENDS Integers, Sequences, FiniteSets, TLC

VARIABLES
  customers,   \* Customer table: sequence of rows, primary key = position
  products,    \* Product table: sequence of rows, primary key = position
  orders,      \* Order table (committed rows), primary key = position
  last,        \* Spec: the latest request and its response
  pc,          \* SpecConc: position of each request context in its handler
  req,         \* SpecConc: the handler's input and local variables
  tx,          \* SpecConc: rows written inside a still open transaction
  res,         \* SpecConc: the response of each context's latest request
  observed,    \* SpecConc: what the latest resolve_orders query returned
  phone,       \* SpecPhone: the argument of validate_phone
  verdict      \* SpecPhone: its return value ("none" before the call)

vars == <<customers, products, orders, last, pc, req, tx, res, observed,
          phone, verdict>>

-----------------------------------------------------------------------------
(* Bounds of the model *)

MaxCustomers == 2
MaxProducts == 2
MaxOrders == 1
MaxConcOrders == 2
MaxBatch == 2
MaxIds == 2
MaxDigits == 17

-----------------------------------------------------------------------------
(* Characters, optional values, conversions between ids and ID strings *)

DigitChars == <<"0", "1", "2", "3", "4", "5", "6", "7", "8", "9">>

IsDigit(c) == \E d \in 1..10 : DigitChars[d] = c

DigitVal(c) == (CHOOSE d \in 1..10 : DigitChars[d] = c) - 1

\* int(s) as the ORM applies it to a primary-key value given as a string
RECURSIVE ParseInt(_)
ParseInt(s) ==
  IF Len(s) = 0 THEN 0
  ELSE ParseInt(SubSeq(s, 1, Len(s) - 1)) * 10 + DigitVal(s[Len(s)])

\* str(n) for a primary key n >= 0
RECURSIVE IntToStr(_)
IntToStr(n) ==
  IF n < 10 THEN <<DigitChars[n + 1]>>
  ELSE IntToStr(n \div 10) \o <<DigitChars[(n % 10) + 1]>>

None == [some |-> FALSE]
Some(s) == [some |-> TRUE, s |-> s]

Range(f) == {f[i] : i \in DOMAIN f}

SeqsUpTo(S, n) == UNION {[1..k -> S] : k \in 0..n}

-----------------------------------------------------------------------------
(* validate_phone *)

\* '$' after i consumed characters: at the end of the string, or just before
\* a newline that is the last character
DollarAt(s, i) ==
  \/ i = Len(s)
  \/ i = Len(s) - 1 /\ s[Len(s)] = "\n"

\* ^\+?1?\d{9,15}$
MatchInternational(s) ==
  \E plus \in 0..1, one \in 0..1, n \in 9..15 :
    LET k == plus + one + n IN
      /\ k <= Len(s)
      /\ plus = 1 => s[1] = "+"
      /\ one = 1 => s[plus + 1] = "1"
      /\ \A i \in (plus + one + 1)..k : IsDigit(s[i])
      /\ DollarAt(s, k)

\* ^\d{3}-\d{3}-\d{4}$
MatchDashed(s) ==
  /\ 12 <= Len(s)
  /\ \A i \in {1, 2, 3, 5, 6, 7, 9, 10, 11, 12} : IsDigit(s[i])
  /\ s[4] = "-"
  /\ s[8] = "-"
  /\ DollarAt(s, 12)

ReMatch(s) == MatchInternational(s) \/ MatchDashed(s)

validate_phone(p) ==
  IF ~p.some \/ p.s = <<>> THEN TRUE ELSE ReMatch(p.s)

-----------------------------------------------------------------------------
(* The entity store *)

\* Customer.objects.filter(email=...).exists()
EmailExists(cs, email) == \E i \in 1..Len(cs) : cs[i].email = email

\* Customer.objects.create(...): the table itself accepts any row; email
\* uniqueness is left to the handlers
StoreInsertCustomer(cs, row) == Append(cs, row)

\* Customer.objects.get(pk=...): the key is converted with int()
CustomerFound(cs, customer_id) == ParseInt(customer_id) \in 1..Len(cs)

\* Product.objects.filter(id__in=product_ids): the distinct rows whose key is
\* the int() of some requested value
FilterProducts(ps, product_ids) ==
  {i \in 1..Len(ps) : \E k \in 1..Len(product_ids) : ParseInt(product_ids[k]) = i}

\* A block whose writes stay although an exception ended it
NoRollback(before, after, failed) == after

\* Leaving "with transaction.atomic()": the block's writes are committed,
\* unless an exception left the block or the transaction was marked for
\* rollback, and then none of them is
AtomicExit(before, after, failed) == IF failed THEN before ELSE after

-----------------------------------------------------------------------------
(* CreateCustomer.mutate *)

Row(input) == [name |-> input.name, email |-> input.email, phone |-> input.phone]

\* The handler without its existence query
InsertUnchecked(cs, input, fault) ==
  IF ~validate_phone(input.phone)
    THEN [customers |-> cs, ok |-> FALSE, err |-> "Invalid phone number format"]
  ELSE IF fault
    THEN [customers |-> cs, ok |-> FALSE, err |-> "Error creating customer"]
  ELSE [customers |-> StoreInsertCustomer(cs, Row(input)), ok |-> TRUE, err |-> ""]

\* fault: the store raises in Customer.objects.create
CreateCustomerMutate(cs, input, fault) ==
  IF ~validate_phone(input.phone)
    THEN [customers |-> cs, ok |-> FALSE, err |-> "Invalid phone number format"]
  ELSE IF EmailExists(cs, input.email)
    THEN [customers |-> cs, ok |-> FALSE, err |-> "Email already exists"]
  ELSE IF fault
    THEN [customers |-> cs, ok |-> FALSE, err |-> "Error creating customer"]
  ELSE [customers |-> StoreInsertCustomer(cs, Row(input)), ok |-> TRUE, err |-> ""]

-----------------------------------------------------------------------------
(* BulkCreateCustomers.mutate *)

InvalidPhoneFor(name) == [kind |-> "Invalid phone number for", name |-> name]
ErrorCreatingFor(name) == [kind |-> "Error creating customer", name |-> name]

\* One iteration of the loop body on record rec, the k-th of the batch.
\* st.rows: rows inserted in the open transaction; st.customers, st.errors:
\* the two result lists; st.broken: an exception inside create() has marked
\* the transaction for rollback, after which every further query raises.
\* faultAt: the position at which the store raises in create (0: nowhere).
BulkStep(st, rec, k, faultAt) ==
  IF ~validate_phone(rec.phone)
    THEN [st EXCEPT !.errors = Append(@, InvalidPhoneFor(rec.name))]
  ELSE IF st.broken \/ faultAt = k
    THEN [st EXCEPT !.errors = Append(@, ErrorCreatingFor(rec.name)),
                    !.broken = TRUE]
  ELSE [st EXCEPT !.rows = StoreInsertCustomer(@, Row(rec)),
                  !.customers = Append(@, Row(rec))]

RECURSIVE BulkLoop(_, _, _, _)
BulkLoop(st, input, k, faultAt) ==
  IF k > Len(input) THEN st
  ELSE BulkLoop(BulkStep(st, input[k], k, faultAt), input, k + 1, faultAt)

BulkCreateCustomersMutate(cs, input, faultAt) ==
  LET st == BulkLoop([rows |-> cs, customers |-> <<>>, errors |-> <<>>,
                      broken |-> FALSE], input, 1, faultAt)
  IN [customers |-> AtomicExit(cs, st.rows, st.broken),
      created |-> st.customers,
      errors |-> st.errors]

-----------------------------------------------------------------------------
(* CreateProduct.mutate *)

CreateProductMutate(ps, input) ==
  IF input.price <= 0
    THEN [products |-> ps, ok |-> FALSE, err |-> "Price must be positive"]
  ELSE IF input.stock < 0
    THEN [products |-> ps, ok |-> FALSE, err |-> "Stock cannot be negative"]
  ELSE [products |-> Append(ps, [name |-> input.name, price |-> input.price,
                                 stock |-> input.stock]),
        ok |-> TRUE, err |-> ""]

-----------------------------------------------------------------------------
(* CreateOrder.mutate *)

\* The handler without the comparison of the two counts
NoCountCheck(found, product_ids) == FALSE

\* len(products) != len(input.product_ids)
CountMismatch(found, product_ids) == Cardinality(found) # Len(product_ids)

\* set(input.product_ids) - set(str(p.id) for p in products)
MissingProducts(found, product_ids) ==
  Range(product_ids) \ {IntToStr(i) : i \in found}

\* sum(product.price for product in products)
RECURSIVE SumPrices(_, _)
SumPrices(ps, found) ==
  IF found = {} THEN 0
  ELSE LET i == CHOOSE j \in found : TRUE
       IN ps[i].price + SumPrices(ps, found \ {i})

\* The total left at the placeholder Decimal('0')
PlaceholderTotal(ps, found) == 0

\* total = sum(...); order.total_amount = total
OrderTotal(ps, found) == SumPrices(ps, found)

\* The keys a list of ID values names
RequestedKeys(product_ids) == {ParseInt(product_ids[k]) : k \in 1..Len(product_ids)}

\* Order.objects.create(customer=customer, total_amount=Decimal('0'), ...)
\* requested is not a column: it records the keys the request named
NewOrderRow(input) ==
  [customer |-> ParseInt(input.customer_id), products |-> {},
   total_amount |-> 0, requested |-> RequestedKeys(input.product_ids)]

\* The writes of the atomic block, applied to the order row in turn; the
\* store raises in write number faultAt (0: in none), which ends the block.
OrderWrites(os, ps, input, found, faultAt) ==
  LET row1 == NewOrderRow(input)
      row2 == [row1 EXCEPT !.products = found]
      row3 == [row2 EXCEPT !.total_amount = OrderTotal(ps, found)]
  IN CASE faultAt = 1 -> os
       [] faultAt = 2 -> Append(os, row1)
       [] faultAt = 3 -> Append(os, row2)
       [] OTHER -> Append(os, row3)

CreateOrderMutate(cs, ps, os, input, faultAt) ==
  LET found == FilterProducts(ps, input.product_ids)
      fail(e, named) == [orders |-> os, ok |-> FALSE, err |-> e, named |-> named]
  IN IF ~CustomerFound(cs, input.customer_id)
       THEN fail("Customer not found", {})
     ELSE IF input.product_ids = <<>>
       THEN fail("At least one product is required", {})
     ELSE IF CountMismatch(found, input.product_ids)
       THEN fail("Products not found", MissingProducts(found, input.product_ids))
     ELSE [orders |-> AtomicExit(os, OrderWrites(os, ps, input, found, faultAt),
                                 faultAt # 0),
           ok |-> faultAt = 0,
           err |-> IF faultAt = 0 THEN "" ELSE "Error creating order",
           named |-> {}]

-----------------------------------------------------------------------------
(* Request inputs *)

Names == {"Ann", "Bob"}
Emails == {"a@x.org", "b@x.org"}

GoodPhone == Some(<<"5", "5", "5", "-", "5", "5", "5", "-", "5", "5", "5", "5">>)
BadPhone == Some(<<"5", "5", "5">>)
Phones == {None, GoodPhone, BadPhone}

CustomerInputs == [name : Names, email : Emails, phone : Phones]

\* The records batches are made of: two that share an email, one with an
\* invalid phone, one with a valid phone
BulkRecords ==
  {[name |-> "Ann", email |-> "a@x.org", phone |-> None],
   [name |-> "Bob", email |-> "a@x.org", phone |-> None],
   [name |-> "Bob", email |-> "b@x.org", phone |-> BadPhone],
   [name |-> "Ann", email |-> "b@x.org", phone |-> GoodPhone]}

\* price in cents (0.00, 5.50, 10.00)
ProductInputs == [name : {"pen"}, price : {0, 550, 1000}, stock : {-1, 5}]

\* ID values: the keys up to one past the table's capacity, and "01"
IdStrings(n) == {IntToStr(i) : i \in 1..(n + 1)} \cup {<<"0">> \o IntToStr(1)}

\* The one customer of the requests of SpecOrders
OneCustomer == {[name |-> "Ann", email |-> "a@x.org", phone |-> None]}

OrderInputs ==
  [customer_id : {IntToStr(1), <<"0">> \o IntToStr(1), IntToStr(MaxCustomers + 1)},
   product_ids : SeqsUpTo(IdStrings(MaxProducts), MaxIds)]

-----------------------------------------------------------------------------
(* Spec: one request at a time *)

NoRequest ==
  [op |-> "none", input |-> <<>>, fault |-> 0, ok |-> TRUE, err |-> "",
   named |-> {}, created |-> <<>>, errors |-> <<>>]

Procs == {"r1", "r2"}

NoInput == [customer_id |-> <<>>, product_ids |-> <<>>, found |-> {},
            name |-> "", email |-> "", phone |-> None]

NoResponse == [op |-> "none", ok |-> TRUE, err |-> "", email |-> ""]

NoneObserved == [orders |-> <<>>, open |-> 0]

Idle ==
  /\ pc = [p \in Procs |-> "idle"]
  /\ req = [p \in Procs |-> NoInput]
  /\ tx = [p \in Procs |-> <<>>]
  /\ res = [p \in Procs |-> NoResponse]
  /\ observed = NoneObserved

Init ==
  /\ customers = <<>>
  /\ products = <<>>
  /\ orders = <<>>
  /\ last = NoRequest
  /\ Idle
  /\ phone = None
  /\ verdict = "none"

\* The schema executes one operation per request: a handler runs when no
\* response is pending, and respond hands the response to the caller
createCustomer(Inputs) ==
  /\ last = NoRequest
  /\ \E input \in Inputs, fault \in BOOLEAN :
    \E r \in {CreateCustomerMutate(customers, input, fault)} :
      /\ Len(r.customers) <= MaxCustomers
      /\ customers' = r.customers
      /\ last' = [NoRequest EXCEPT !.op = "createCustomer", !.input = input,
                                   !.fault = IF fault THEN 1 ELSE 0,
                                   !.ok = r.ok, !.err = r.err]
      /\ UNCHANGED <<products, orders, pc, req, tx, res, observed, phone, verdict>>

bulkCreateCustomers ==
  /\ last = NoRequest
  /\ \E input \in SeqsUpTo(BulkRecords, MaxBatch) :
    \E faultAt \in 0..Len(input) :
      \E r \in {BulkCreateCustomersMutate(customers, input, faultAt)} :
        /\ Len(customers) + Len(input) <= MaxCustomers
        /\ customers' = r.customers
        /\ last' = [NoRequest EXCEPT !.op = "bulkCreateCustomers", !.input = input,
                                     !.fault = faultAt,
                                     !.created = r.created, !.errors = r.errors]
        /\ UNCHANGED <<products, orders, pc, req, tx, res, observed, phone, verdict>>

createProduct ==
  /\ last = NoRequest
  /\ \E input \in ProductInputs :
    \E r \in {CreateProductMutate(products, input)} :
      /\ Len(r.products) <= MaxProducts
      /\ products' = r.products
      /\ last' = [NoRequest EXCEPT !.op = "createProduct", !.input = input,
                                   !.ok = r.ok, !.err = r.err]
      /\ UNCHANGED <<customers, orders, pc, req, tx, res, observed, phone, verdict>>

createOrder ==
  /\ last = NoRequest
  /\ \E input \in OrderInputs, faultAt \in 0..3 :
    \E r \in {CreateOrderMutate(customers, products, orders, input, faultAt)} :
      /\ Len(r.orders) <= MaxOrders
      /\ orders' = r.orders
      /\ last' = [NoRequest EXCEPT !.op = "createOrder", !.input = input,
                                   !.fault = faultAt,
                                   !.ok = r.ok, !.err = r.err, !.named = r.named]
      /\ UNCHANGED <<customers, products, pc, req, tx, res, observed, phone, verdict>>

respond ==
  /\ last # NoRequest
  /\ last' = NoRequest
  /\ UNCHANGED <<customers, products, orders, pc, req, tx, res, observed, phone,
                 verdict>>

Next ==
  \/ createCustomer(CustomerInputs)
  \/ bulkCreateCustomers
  \/ createProduct
  \/ createOrder
  \/ respond

Spec == Init /\ [][Next]_vars

\* The customer handlers alone
NextCustomers ==
  \/ createCustomer(CustomerInputs)
  \/ bulkCreateCustomers
  \/ respond

SpecCustomers == Init /\ [][NextCustomers]_vars

\* The handlers an order depends on, with one customer to order for
NextOrders ==
  \/ createCustomer(OneCustomer)
  \/ createProduct
  \/ createOrder
  \/ respond

SpecOrders == Init /\ [][NextOrders]_vars

-----------------------------------------------------------------------------
(* SpecPhone: validate_phone on its own *)

Run(n) == [i \in 1..n |-> "5"]

InternationalShaped ==
  {pre \o one \o Run(n) \o post :
     pre \in {<<>>, <<"+">>, <<"x">>}, one \in {<<>>, <<"1">>},
     n \in 0..MaxDigits,
     post \in {<<>>, <<"\n">>, <<"x">>, <<"\n", "\n">>}}

DashedShaped ==
  {Run(a) \o <<s1>> \o Run(b) \o <<s2>> \o Run(c) \o post :
     a \in 2..4, b \in 2..4, c \in 3..5, s1 \in {"-", " "}, s2 \in {"-", "5"},
     post \in {<<>>, <<"\n">>, <<"x">>}}

PhoneInputs == {None} \cup {Some(s) : s \in InternationalShaped \cup DashedShaped}

InitPhone ==
  /\ customers = <<>>
  /\ products = <<>>
  /\ orders = <<>>
  /\ last = NoRequest
  /\ Idle
  /\ phone \in PhoneInputs
  /\ verdict = "none"

ValidatePhone ==
  /\ verdict = "none"
  /\ verdict' = IF validate_phone(phone) THEN "true" ELSE "false"
  /\ UNCHANGED <<customers, products, orders, last, pc, req, tx, res, observed,
                 phone>>

NextPhone == ValidatePhone

SpecPhone == InitPhone /\ [][NextPhone]_vars

-----------------------------------------------------------------------------
(* SpecConc: two request contexts. Every store access is one step; the      *)
(* store gives each statement, and each atomic block, to the others whole.  *)

ConcCustomerInputs == [name : {"Ann"}, email : Emails, phone : {None, BadPhone}]

ConcProductInputs == [name : {"pen"}, price : {550}, stock : {5}]

ConcOrderInputs ==
  [customer_id : {IntToStr(1), IntToStr(MaxCustomers + 1)},
   product_ids : {<<>>, <<IntToStr(1)>>, <<IntToStr(1), IntToStr(2)>>,
                  <<IntToStr(MaxProducts + 1)>>}]

Done(p, op, ok, err, email) ==
  /\ pc' = [pc EXCEPT ![p] = "done"]
  /\ req' = [req EXCEPT ![p] = NoInput]
  /\ res' = [res EXCEPT ![p] = [op |-> op, ok |-> ok, err |-> err, email |-> email]]

Creating(phase) == Cardinality({q \in Procs : pc[q] \in phase})

\* Rows written by atomic blocks that are still open
OpenRows == tx["r1"] \o tx["r2"]

\* Writes that other connections see as soon as they are made
DirtyOrders(os, open) == os \o open

\* What a query of another connection reads of the Order table while atomic
\* blocks are open: committed rows only
VisibleOrders(os, open) == os

\* CreateCustomer.mutate up to and including the existence query
CcBegin(p) ==
  \E input \in ConcCustomerInputs :
    /\ pc[p] = "idle"
    /\ Len(customers) + Creating({"cc_create"}) < MaxCustomers
    /\ IF ~validate_phone(input.phone)
         THEN Done(p, "createCustomer", FALSE, "Invalid phone number format", input.email)
       ELSE IF EmailExists(customers, input.email)
         THEN Done(p, "createCustomer", FALSE, "Email already exists", input.email)
       ELSE /\ pc' = [pc EXCEPT ![p] = "cc_create"]
            /\ req' = [req EXCEPT ![p] = [NoInput EXCEPT !.name = input.name,
                                                         !.email = input.email,
                                                         !.phone = input.phone]]
            /\ UNCHANGED res
    /\ UNCHANGED <<customers, products, orders, last, tx, observed, phone, verdict>>

\* Customer.objects.create and the return
CcCreate(p) ==
  \E fault \in BOOLEAN :
    /\ pc[p] = "cc_create"
    /\ IF fault
         THEN /\ Done(p, "createCustomer", FALSE, "Error creating customer", req[p].email)
              /\ UNCHANGED customers
         ELSE /\ customers' = StoreInsertCustomer(customers, Row(req[p]))
              /\ Done(p, "createCustomer", TRUE, "", req[p].email)
    /\ UNCHANGED <<products, orders, last, tx, observed, phone, verdict>>

\* CreateProduct.mutate: local checks and a single insert
CpCreate(p) ==
  /\ pc[p] = "idle"
  /\ \E input \in ConcProductInputs :
    \E r \in {CreateProductMutate(products, input)} :
      /\ Len(r.products) <= MaxProducts
      /\ products' = r.products
      /\ Done(p, "createProduct", r.ok, r.err, "")
      /\ UNCHANGED <<customers, orders, last, tx, observed, phone, verdict>>

\* CreateOrder.mutate: the customer lookup and the empty-list check
CoBegin(p) ==
  \E input \in ConcOrderInputs :
    /\ pc[p] = "idle"
    /\ Len(orders) + Creating({"co_fetch", "co_create", "co_set", "co_save", "co_exit"})
         < MaxConcOrders
    /\ IF ~CustomerFound(customers, input.customer_id)
         THEN Done(p, "createOrder", FALSE, "Customer not found", "")
       ELSE IF input.product_ids = <<>>
         THEN Done(p, "createOrder", FALSE, "At least one product is required", "")
       ELSE /\ pc' = [pc EXCEPT ![p] = "co_fetch"]
            /\ req' = [req EXCEPT ![p] = [NoInput EXCEPT
                         !.customer_id = input.customer_id,
                         !.product_ids = input.product_ids]]
            /\ UNCHANGED res
    /\ UNCHANGED <<customers, products, orders, last, tx, observed, phone, verdict>>

\* len(products) runs the product query; the rows read stay cached
CoFetch(p) ==
  LET found == FilterProducts(products, req[p].product_ids) IN
    /\ pc[p] = "co_fetch"
    /\ IF CountMismatch(found, req[p].product_ids)
         THEN Done(p, "createOrder", FALSE, "Products not found", "")
         ELSE /\ pc' = [pc EXCEPT ![p] = "co_create"]
              /\ req' = [req EXCEPT ![p].found = found]
              /\ UNCHANGED res
    /\ UNCHANGED <<customers, products, orders, last, tx, observed, phone, verdict>>

\* Entering the atomic block and Order.objects.create
CoCreate(p) ==
  /\ pc[p] = "co_create"
  /\ tx' = [tx EXCEPT ![p] = <<NewOrderRow(req[p])>>]
  /\ pc' = [pc EXCEPT ![p] = "co_set"]
  /\ UNCHANGED <<customers, products, orders, last, req, res, observed, phone, verdict>>

\* order.products.set(products)
CoSet(p) ==
  /\ pc[p] = "co_set"
  /\ tx' = [tx EXCEPT ![p][1].products = req[p].found]
  /\ pc' = [pc EXCEPT ![p] = "co_save"]
  /\ UNCHANGED <<customers, products, orders, last, req, res, observed, phone, verdict>>

\* total = sum(...); order.total_amount = total; order.save()
CoSave(p) ==
  /\ pc[p] = "co_save"
  /\ tx' = [tx EXCEPT ![p][1].total_amount = OrderTotal(products, req[p].found)]
  /\ pc' = [pc EXCEPT ![p] = "co_exit"]
  /\ UNCHANGED <<customers, products, orders, last, req, res, observed, phone, verdict>>

\* Leaving the atomic block normally, and the return
CoExit(p) ==
  /\ pc[p] = "co_exit"
  /\ orders' = AtomicExit(orders, orders \o tx[p], FALSE)
  /\ tx' = [tx EXCEPT ![p] = <<>>]
  /\ Done(p, "createOrder", TRUE, "", "")
  /\ UNCHANGED <<customers, products, last, observed, phone, verdict>>

\* The store raises in one of the block's writes: the exception leaves the
\* block and is caught by the handler's except clause
CoFault(p) ==
  /\ pc[p] \in {"co_create", "co_set", "co_save"}
  /\ orders' = AtomicExit(orders, orders \o tx[p], TRUE)
  /\ tx' = [tx EXCEPT ![p] = <<>>]
  /\ Done(p, "createOrder", FALSE, "Error creating order", "")
  /\ UNCHANGED <<customers, products, last, observed, phone, verdict>>

\* Query.resolve_orders in a request of its own
ResolveOrders ==
  /\ observed' = [orders |-> VisibleOrders(orders, OpenRows), open |-> Len(OpenRows)]
  /\ UNCHANGED <<customers, products, orders, last, pc, req, tx, res, phone, verdict>>

\* The response leaves; the request context is gone
Respond(p) ==
  /\ pc[p] = "done"
  /\ pc' = [pc EXCEPT ![p] = "idle"]
  /\ res' = [res EXCEPT ![p] = NoResponse]
  /\ UNCHANGED <<customers, products, orders, last, req, tx, observed, phone, verdict>>

NextConc ==
  \/ \E p \in Procs : CcBegin(p)
  \/ \E p \in Procs : CcCreate(p)
  \/ \E p \in Procs : CpCreate(p)
  \/ \E p \in Procs : CoBegin(p)
  \/ \E p \in Procs : CoFetch(p)
  \/ \E p \in Procs : CoCreate(p)
  \/ \E p \in Procs : CoSet(p)
  \/ \E p \in Procs : CoSave(p)
  \/ \E p \in Procs : CoExit(p)
  \/ \E p \in Procs : CoFault(p)
  \/ \E p \in Procs : Respond(p)
  \/ ResolveOrders

SpecConc == Init /\ [][NextConc]_vars

-----------------------------------------------------------------------------
(* Properties *)

\* The sum of the prices of the products with keys in S, by table position
RECURSIVE PriceSum(_, _, _)
PriceSum(ps, S, n) ==
  IF n = 0 THEN 0
  ELSE (IF n \in S THEN ps[n].price ELSE 0) + PriceSum(ps, S, n - 1)

\* C1: every stored order's total_amount is the exact sum of the prices of
\* the products associated with it.
C1_TotalIsSumOfPrices ==
  \A i \in 1..Len(orders) :
    orders[i].total_amount = PriceSum(products, orders[i].products, Len(products))

\* An order of a 10.00 and a 5.50 product is stored with total 15.50
C1_Witness ==
  \E i \in 1..Len(orders) :
    /\ Cardinality(orders[i].products) = 2
    /\ {products[j].price : j \in orders[i].products} = {1000, 550}
    /\ orders[i].total_amount = 1550

\* C2: when the customer exists, product_ids is not empty and the number of
\* products fetched differs from the number of ids requested, createOrder
\* fails and its error names exactly the requested ids that are not in the
\* store.
C2_ErrorNamesExactlyMissing ==
  (/\ last.op = "createOrder"
   /\ CustomerFound(customers, last.input.customer_id)
   /\ last.input.product_ids # <<>>
   /\ Cardinality(FilterProducts(products, last.input.product_ids))
        # Len(last.input.product_ids))
  => (/\ ~last.ok
      /\ last.err = "Products not found"
      /\ last.named = {s \in Range(last.input.product_ids) :
                         ParseInt(s) \notin 1..Len(products)})

\* C3: a createOrder call that fails, for whatever reason, leaves customers,
\* products and orders as they were.
C3_FailedOrderChangesNothing ==
  [][(last'.op = "createOrder" /\ ~last'.ok)
       => (orders' = orders /\ customers' = customers /\ products' = products)]_vars

\* The store raised after the order row and its products were written, and
\* the order stored before the call is still the only one
C3_Witness ==
  /\ last.op = "createOrder"
  /\ ~last.ok
  /\ last.err = "Error creating order"
  /\ last.fault = 3
  /\ Len(orders) = 1

\* C4, as stated: createCustomer with an email a stored customer holds fails
\* with "Email already exists" and inserts no row, whatever name and phone.
C4_DuplicateAlwaysUniquenessError ==
  [][(last'.op = "createCustomer" /\ EmailExists(customers, last'.input.email))
       => (/\ ~last'.ok
           /\ last'.err = "Email already exists"
           /\ customers' = customers)]_vars

\* C4, amended: createCustomer with an email a stored customer holds fails
\* and inserts no row, whatever name and phone; the error is "Email already
\* exists" when the phone passes validate_phone and "Invalid phone number
\* format" when it does not.
C4_DuplicateAlwaysRejected ==
  [][(last'.op = "createCustomer" /\ EmailExists(customers, last'.input.email))
       => (/\ ~last'.ok
           /\ customers' = customers
           /\ last'.err = IF validate_phone(last'.input.phone)
                            THEN "Email already exists"
                            ELSE "Invalid phone number format")]_vars

\* A request with a stored email but another name was refused as a duplicate
C4_Witness ==
  /\ last.op = "createCustomer"
  /\ last.err = "Email already exists"
  /\ \E i \in 1..Len(customers) :
       /\ customers[i].email = last.input.email
       /\ customers[i].name # last.input.name

\* C5: no two stored customers have the same email.
C5_EmailsUnique ==
  \A i, j \in 1..Len(customers) :
    i # j => customers[i].email # customers[j].email

\* The rows of the records of a batch that pass: valid phone, and the store
\* does not raise in their creation; and the names of the others
RECURSIVE PassedRows(_, _, _)
PassedRows(input, faultAt, k) ==
  IF k > Len(input) THEN <<>>
  ELSE (IF validate_phone(input[k].phone) /\ faultAt # k
          THEN <<Row(input[k])>> ELSE <<>>)
       \o PassedRows(input, faultAt, k + 1)

RECURSIVE FailedNames(_, _, _)
FailedNames(input, faultAt, k) ==
  IF k > Len(input) THEN <<>>
  ELSE (IF validate_phone(input[k].phone) /\ faultAt # k
          THEN <<>> ELSE <<input[k].name>>)
       \o FailedNames(input, faultAt, k + 1)

\* C6: bulkCreateCustomers handles each record on its own and in order: a
\* record whose phone is invalid or whose creation raises gives one error
\* naming it, every other record is created and committed, so the returned
\* customers are the records that passed and created + errors = batch length.
C6_BulkRecordsIndependent ==
  [][last'.op = "bulkCreateCustomers"
       => (/\ customers' = customers \o PassedRows(last'.input, last'.fault, 1)
           /\ last'.created = PassedRows(last'.input, last'.fault, 1)
           /\ [k \in 1..Len(last'.errors) |-> last'.errors[k].name]
                = FailedNames(last'.input, last'.fault, 1)
           /\ Len(last'.created) + Len(last'.errors) = Len(last'.input))]_vars

\* An order row with all its products and its final total
OrderComplete(o) ==
  /\ o.products # {}
  /\ o.products = o.requested
  /\ o.total_amount = PriceSum(products, o.products, Len(products))
  /\ o.total_amount > 0

\* C7: no request observes an order with the placeholder total, without its
\* products or with part of them: what a query reads of an order is the
\* whole of it.
C7_OrdersObservedWhole ==
  /\ \A i \in 1..Len(observed.orders) : OrderComplete(observed.orders[i])
  /\ \A i \in 1..Len(orders) : OrderComplete(orders[i])

\* A query ran while a createOrder block was open, and read a stored order
C7_Witness ==
  /\ observed.open > 0
  /\ Len(observed.orders) > 0

\* C8: every stored order references one existing customer and a non-empty
\* set of existing products, which is exactly the set of ids requested.
C8_OrderReferences ==
  \A i \in 1..Len(orders) :
    /\ orders[i].customer \in 1..Len(customers)
    /\ orders[i].products # {}
    /\ orders[i].products \subseteq 1..Len(products)
    /\ orders[i].products = orders[i].requested

\* An order of two products, one of them requested as "01"
C8_Witness ==
  /\ last.op = "createOrder"
  /\ last.ok
  /\ <<"0", "1">> \in Range(last.input.product_ids)
  /\ Len(orders) > 0
  /\ Cardinality(orders[Len(orders)].products) = 2

\* The two formats, as properties of the whole string
WholeInternational(s) ==
  \E plus \in 0..1, one \in 0..1 :
    /\ plus + one <= Len(s)
    /\ Len(s) - plus - one \in 9..15
    /\ plus = 1 => s[1] = "+"
    /\ one = 1 => s[plus + 1] = "1"
    /\ \A i \in (plus + one + 1)..Len(s) : IsDigit(s[i])

WholeDashed(s) ==
  /\ Len(s) = 12
  /\ \A i \in 1..12 : IF i \in {4, 8} THEN s[i] = "-" ELSE IsDigit(s[i])

\* C9: validate_phone is true for an absent or empty phone, and for a
\* non-empty one exactly when the whole string is NNN-NNN-NNNN or an optional
\* '+', an optional '1' and 9 to 15 digits.
C9_PhoneFormat ==
  verdict # "none" =>
    (verdict = "true") =
      (~phone.some \/ phone.s = <<>> \/ WholeInternational(phone.s)
         \/ WholeDashed(phone.s))

\* C10: two createCustomer requests with the same email never both succeed.
C10_OneWinner ==
  \A p, q \in Procs :
    (/\ p # q
     /\ res[p].op = "createCustomer"
     /\ res[q].op = "createCustomer"
     /\ res[p].email = res[q].email)
    => ~(res[p].ok /\ res[q].ok)

====
